---- MODULE Spec2Model ----
(***************************************************************************)
(* Model of the temp-mail backend: startup, the Socket.IO room registry,  *)
(* the two webhook routes, the Email model (store), the history replay    *)
(* and the REST routes that read and delete messages.                     *)
(* Strings are sequences of one-character strings, so that toLowerCase,   *)
(* trim, includes and the bracket regex are computed, not assumed.        *)
(***************************************************************************)
EXTENDS Integers, Sequences, FiniteSets, TLC

\* ------------------------------------------------------------------------
\* Strings
\* ------------------------------------------------------------------------

Uppers == <<"A","B","C","D","E","F","G","H","I","J","K","L","M",
            "N","O","P","Q","R","S","T","U","V","W","X","Y","Z">>

Lowers == <<"a","b","c","d","e","f","g","h","i","j","k","l","m",
            "n","o","p","q","r","s","t","u","v","w","x","y","z">>

WhiteSpace == {" ", "\t", "\n"}

\* the lower-case letter of each upper-case letter
LowerOf ==
  [c \in {Uppers[i] : i \in 1..Len(Uppers)} |->
     Lowers[CHOOSE i \in 1..Len(Uppers) : Uppers[i] = c]]

\* String.prototype.toLowerCase, one character
lowerChar(c) == IF c \in DOMAIN LowerOf THEN LowerOf[c] ELSE c

\* String.prototype.toLowerCase
toLowerCase(s) == [i \in 1..Len(s) |-> lowerChar(s[i])]

RECURSIVE trimStart(_)
\* String.prototype.trimStart
trimStart(s) ==
  IF s # <<>> /\ s[1] \in WhiteSpace THEN trimStart(Tail(s)) ELSE s

RECURSIVE trimEnd(_)
\* String.prototype.trimEnd
trimEnd(s) ==
  IF s # <<>> /\ s[Len(s)] \in WhiteSpace THEN trimEnd(SubSeq(s, 1, Len(s) - 1)) ELSE s

\* String.prototype.trim
trim(s) == trimEnd(trimStart(s))

\* String.prototype.includes
includes(s, sub) ==
  \E i \in 1..(Len(s) - Len(sub) + 1) : SubSeq(s, i, i + Len(sub) - 1) = sub

\* to.match(/<(.+?)>/): leftmost "<" that has a ">" at least two places
\* later, then the nearest such ">"; the result is match[1], or <<>> with
\* matched = FALSE when there is no match ("." does not match a newline).
bracketMatch(s) ==
  LET ok(i, j) == /\ s[i] = "<" /\ s[j] = ">" /\ j >= i + 2
                  /\ \A k \in (i+1)..(j-1) : s[k] # "\n"
      starts == {i \in 1..Len(s) : \E j \in 1..Len(s) : ok(i, j)}
  IN IF starts = {} THEN [matched |-> FALSE, group |-> <<>>]
     ELSE LET i == CHOOSE a \in starts : \A b \in starts : a <= b
              ends == {j \in 1..Len(s) : ok(i, j)}
              j == CHOOSE a \in ends : \A b \in ends : a <= b
          IN [matched |-> TRUE, group |-> SubSeq(s, i + 1, j - 1)]

\* const rootDomain = 'fadhlirajwaa.my.id'
rootDomain == <<"f","a","d","h","l","i","r","a","j","w","a","a",".","m","y",".","i","d">>

\* ------------------------------------------------------------------------
\* Bounds and inputs
\* ------------------------------------------------------------------------

MaxConns == 2       \* connections that ever connect
MaxJoins == 2       \* 'join-room' events processed
MaxReqs == 1        \* webhook requests received
MaxRoomJoins == 2   \* 'join-room' events, rooms alone
MaxRaceJoins == 1   \* 'join-room' events, one address
MaxRaceReqs == 2    \* webhook requests, one address
MaxTTLJoins == 1    \* 'join-room' events, running clock
MaxTTLReqs == 1     \* webhook requests, running clock
MaxTicks == 2       \* clock ticks, running clock
MaxDelReqs == 2     \* webhook requests, deletions
MaxIngestJoins == 1 \* 'join-room' events, one listener
MaxIngestReqs == 1  \* webhook requests, one listener
MaxOwnJoins == 1    \* 'join-room' events, own rooms
MaxOwnReqs == 1     \* webhook requests, own rooms
MaxStartJoins == 1  \* 'join-room' events, startup
MaxStartReqs == 1   \* webhook requests, startup
TickSeconds == 450  \* seconds per clock tick

\* the connection ids
Conns == 1..MaxConns

\* a single client
OneConn == {1}

\* an absent form field (undefined) and a present one
Absent == [has |-> FALSE, v |-> <<>>]

Field(s) == [has |-> TRUE, v |-> s]

\* JavaScript truthiness of a form field: undefined and '' are falsy
Truthy(f) == f.has /\ f.v # <<>>

addrLocal == <<"u","@">> \o rootDomain

addrUpperLocal == <<" ","U","@">> \o rootDomain \o <<" ">>

addrUpperDomain == <<"u","@","F","A","D","H","L","I","R","A","J","W","A","A",".","M","Y",".","I","D">>

addrDisplay == <<"N"," ","<","U","@">> \o rootDomain \o <<">">>

addrDisplayPadded == <<"N"," ","<"," ","U","@">> \o rootDomain \o <<" ",">">>

addrSub == <<"u","@","m",".">> \o rootDomain

addrForeign == <<"v","@","x",".","i","o">>

addrLookalike == <<"u","@">> \o rootDomain \o <<".","x">>

addrBlank == <<" ">>

\* arguments of 'join-room' and 'leave-room'
JoinInputs == {addrLocal, addrUpperLocal, addrForeign}

\* req.body of POST /webhook-mailgun: the recipient field
MailgunBodies ==
  [recipient : {Absent, Field(addrUpperLocal), Field(addrUpperDomain), Field(addrForeign)}]

\* req.body.email: absent, or a raw MIME message that simpleParser either
\* rejects (ok = FALSE) or parses to a message whose To header text is mimeTo
NoMime == [has |-> FALSE, ok |-> FALSE, mimeTo |-> Absent]

BadMime == [has |-> TRUE, ok |-> FALSE, mimeTo |-> Absent]

Mime(to) == [has |-> TRUE, ok |-> TRUE, mimeTo |-> to]

\* req.body of POST /api/sendgrid/webhook: the to and email fields
SendgridBodies ==
  {[to |-> Absent, email |-> NoMime],
   [to |-> Field(addrDisplayPadded), email |-> NoMime],
   [to |-> Field(addrUpperDomain), email |-> NoMime],
   [to |-> Field(addrLookalike), email |-> NoMime],
   [to |-> Absent, email |-> Mime(Field(addrUpperLocal))],
   [to |-> Field(addrDisplay), email |-> BadMime]}

\* req.body once the handler no longer reads it
NoBody == [to |-> Absent, email |-> NoMime]

\* ------------------------------------------------------------------------
\* State
\* ------------------------------------------------------------------------

VARIABLES
  server,        \* the process: "connecting" | "connected" | "listening" | "exited"
  sockets,       \* connection id -> "new" | "connected" | "disconnected"
  adapterRooms,  \* Socket.IO rooms joined with socket.join: set of <<room, connection id>>
  ownRooms,      \* connection id -> its socket.id, and whether it is in the room of that name
  activeRooms,   \* the Map room -> Set of socket ids
  joinTasks,     \* the 'join-room' handlers awaiting their history, in arrival order
  joinCount,     \* the number of 'join-room' events so far
  store,         \* the emails collection
  commitLog,     \* ids of the documents in the order the store committed them
  reqs,          \* the webhook requests, in arrival order
  outbox,        \* connection id -> the events pushed to it, in order
  restResponse,  \* the latest GET /api/emails/:emailAddress: its parameter and response
  deleteResponse, \* the latest DELETE /api/emails/:emailId: its parameter and response
  now            \* the clock, in seconds

vars == <<server, sockets, adapterRooms, ownRooms, activeRooms, joinTasks, joinCount, store, commitLog,
          reqs, outbox, restResponse, deleteResponse, now>>

Init ==
  /\ server = "connecting"
  /\ sockets = [c \in Conns |-> "new"]
  /\ adapterRooms = {}
  /\ ownRooms = [c \in Conns |-> [id |-> <<>>, member |-> FALSE]]
  /\ activeRooms = <<>>
  /\ joinTasks = <<>>
  /\ joinCount = 0
  /\ store = {}
  /\ commitLog = <<>>
  /\ reqs = <<>>
  /\ outbox = [c \in Conns |-> <<>>]
  /\ restResponse = [status |-> 0, address |-> <<>>, emails |-> <<>>, at |-> 0]
  /\ deleteResponse = [status |-> 0, emailId |-> <<>>, thrown |-> "none"]
  /\ now = 0

\* ------------------------------------------------------------------------
\* Startup
\* ------------------------------------------------------------------------

\* await connectDatabase(): mongoose.connect resolves and the function
\* returns, or it rejects and the catch block calls process.exit(1)
ConnectDatabase ==
  /\ server = "connecting"
  /\ server' \in {"connected", "exited"}
  /\ UNCHANGED <<sockets, adapterRooms, ownRooms, activeRooms, joinTasks, joinCount, store, commitLog,
                 reqs, outbox, restResponse, deleteResponse, now>>

\* mutant: the module does not await connectDatabase()
awaitedNever(sv) == sv \in {"connecting", "connected"}

\* the statements after the top-level await run once it has resolved
awaited(sv) == sv = "connected"

\* httpServer.listen(PORT)
Listen ==
  /\ awaited(server)
  /\ server' = "listening"
  /\ UNCHANGED <<sockets, adapterRooms, ownRooms, activeRooms, joinTasks, joinCount, store, commitLog,
                 reqs, outbox, restResponse, deleteResponse, now>>

\* module evaluation up to httpServer.listen
Startup == ConnectDatabase \/ Listen

\* the HTTP server (and Socket.IO on it) takes requests once it listens
accepting == server = "listening"

\* ------------------------------------------------------------------------
\* Room registry and transport rooms
\* ------------------------------------------------------------------------

\* emailAddress.toLowerCase().trim()
normalize(raw) == trim(toLowerCase(raw))

\* activeRooms.has(room)
hasRoom(ar, room) == room \in DOMAIN ar

\* mutant: the join is not recorded in the registry
trackJoinNothing(ar, room, c) == ar

\* mutant: the room's Set is created anew on every join
trackJoinFresh(ar, room, c) ==
  [r \in (DOMAIN ar) \cup {room} |-> IF r = room THEN {c} ELSE ar[r]]

\* if (!activeRooms.has(n)) activeRooms.set(n, new Set());
\* activeRooms.get(n).add(socket.id)
trackJoin(ar, room, c) ==
  [r \in (DOMAIN ar) \cup {room} |->
     IF r = room THEN (IF hasRoom(ar, room) THEN ar[room] ELSE {}) \cup {c}
     ELSE ar[r]]

\* mutant: the emptied room is not deleted
trackLeaveNoPrune(ar, room, c) ==
  IF ~hasRoom(ar, room) THEN ar ELSE [ar EXCEPT ![room] = @ \ {c}]

\* mutant: the room is deleted with all its members
trackLeaveDropRoom(ar, room, c) == [r \in (DOMAIN ar) \ {room} |-> ar[r]]

\* if (activeRooms.has(n)) { get(n).delete(socket.id);
\*                           if (get(n).size === 0) activeRooms.delete(n) }
trackLeave(ar, room, c) ==
  IF ~hasRoom(ar, room) THEN ar
  ELSE IF ar[room] \ {c} = {}
       THEN [r \in (DOMAIN ar) \ {room} |-> ar[r]]
       ELSE [ar EXCEPT ![room] = @ \ {c}]

\* mutant: only the rooms the socket is alone in are cleaned up
trackDisconnectAloneOnly(ar, c) ==
  [r \in {x \in DOMAIN ar : ar[x] # {c}} |-> ar[r]]

\* activeRooms.forEach((sockets, room) => { sockets.delete(socket.id);
\*                      if (sockets.size === 0) activeRooms.delete(room) })
trackDisconnect(ar, c) ==
  [r \in {x \in DOMAIN ar : ar[x] \ {c} # {}} |-> ar[r] \ {c}]

\* io.sockets.adapter.rooms.get(room), as a set of connection ids
roomMembers(rooms, room) == {c \in Conns : <<room, c>> \in rooms}

\* mutant: io.emit(ev), the event reaches every socket that is in some room
emitToEveryRoom(ob, rooms, room, ev) ==
  [c \in Conns |-> IF \E p \in rooms : p[2] = c THEN Append(ob[c], ev) ELSE ob[c]]

\* io.to(room).emit(ev): the event reaches every socket in the room
emitToRoom(ob, rooms, room, ev) ==
  [c \in Conns |-> IF c \in roomMembers(rooms, room) THEN Append(ob[c], ev) ELSE ob[c]]

\* mutant: io.emit(ev), the event reaches every connected socket
emitToAllSockets(ob, socks, c, ev) ==
  [d \in Conns |-> IF socks[d] = "connected" THEN Append(ob[d], ev) ELSE ob[d]]

\* socket.emit(ev): the packet is dropped when the socket is not connected
emitToSocket(ob, socks, c, ev) ==
  IF socks[c] = "connected" THEN [ob EXCEPT ![c] = Append(@, ev)] ELSE ob

\* the socket.id of connection c when the generated id has an upper-case
\* character
socketId(c) == <<"S", "k">> \o <<(<<"1","2","3","4","5","6","7","8","9">>)[c]>>

\* the rooms of the transport, joined or own: set of <<room, connection id>>
transportRooms(rooms, own) ==
  rooms \cup {<<own[c].id, c>> : c \in {d \in Conns : own[d].member}}

\* io.on('connection', ...) for a socket whose generated id is id: the
\* transport has put the socket in the room named by its id
ConnectAs(c, id) ==
  /\ accepting
  /\ sockets[c] = "new"
  /\ sockets' = [sockets EXCEPT ![c] = "connected"]
  /\ ownRooms' = [ownRooms EXCEPT ![c] = [id |-> id, member |-> TRUE]]
  /\ UNCHANGED <<server, adapterRooms, activeRooms, joinTasks, joinCount, store, commitLog, reqs,
                 outbox, restResponse, deleteResponse, now>>

\* io.on('connection', ...)
Connect(c) == ConnectAs(c, socketId(c))

\* mutant: the catch block takes the socket out of the room again
catchJoinRollback(rooms, room, c) == rooms \ {<<room, c>>}

\* the catch block of 'join-room' logs and emits 'error'; it calls neither
\* socket.leave nor anything else on the rooms
catchJoin(rooms, room, c) == rooms

\* socket.on('join-room'), up to the await of Email.findByAddress
JoinRoom(c, raw) ==
  /\ sockets[c] = "connected"
  /\ LET normalizedEmail == normalize(raw)
     IN /\ adapterRooms' = adapterRooms \cup {<<normalizedEmail, c>>}
        /\ activeRooms' = trackJoin(activeRooms, normalizedEmail, c)
        /\ joinTasks' = Append(joinTasks,
             [conn |-> c, addr |-> normalizedEmail, pc |-> "reading",
              emails |-> <<>>, readAt |-> 0])
  /\ joinCount' = joinCount + 1
  /\ UNCHANGED <<server, sockets, ownRooms, store, commitLog, reqs, outbox, restResponse, deleteResponse, now>>

\* socket.on('leave-room')
LeaveRoom(c, raw) ==
  /\ sockets[c] = "connected"
  /\ LET normalizedEmail == normalize(raw)
     IN /\ adapterRooms' = adapterRooms \ {<<normalizedEmail, c>>}
        /\ ownRooms' = IF ownRooms[c].id = normalizedEmail
                       THEN [ownRooms EXCEPT ![c].member = FALSE]
                       ELSE ownRooms
        /\ activeRooms' = trackLeave(activeRooms, normalizedEmail, c)
  /\ UNCHANGED <<server, sockets, joinTasks, joinCount, store, commitLog, reqs, outbox, restResponse, deleteResponse, now>>

\* the transport closes the socket (it leaves all its rooms), then
\* socket.on('disconnect') runs
Disconnect(c) ==
  /\ sockets[c] = "connected"
  /\ sockets' = [sockets EXCEPT ![c] = "disconnected"]
  /\ adapterRooms' = {p \in adapterRooms : p[2] # c}
  /\ ownRooms' = [ownRooms EXCEPT ![c].member = FALSE]
  /\ activeRooms' = trackDisconnect(activeRooms, c)
  /\ UNCHANGED <<server, joinTasks, joinCount, store, commitLog, reqs, outbox, restResponse, deleteResponse, now>>

\* ------------------------------------------------------------------------
\* The Email model
\* ------------------------------------------------------------------------

\* createdAt: { expires: 900 }
ExpireSeconds == 900

\* .limit(50)
HistoryLimit == 50

\* mutant: the schema has no setters on to_address
castToAddressRaw(s) == s

\* to_address: { lowercase: true, trim: true }
castToAddress(s) == trim(toLowerCase(s))

\* new Email({ to_address, ... }): _id is assigned at construction and
\* createdAt defaults to Date.now
newEmail(id, to, t) == [id |-> id, to_address |-> castToAddress(to), createdAt |-> t]

\* to_address: { required: true }
validates(doc) == doc.to_address # <<>>

\* emailSchema.methods.toClientFormat
toClientFormat(doc) ==
  [id |-> doc.id, to |-> doc.to_address, expiresAt |-> doc.createdAt + ExpireSeconds]

\* the filter of findByAddress: { to_address: address.toLowerCase() }
matching(docs, address) == {d \in docs : d.to_address = toLowerCase(address)}

\* emailSchema.statics.findByAddress: the possible results of
\* find(...).sort({ createdAt: -1 }).limit(50) on the collection docs
\* (documents with equal createdAt come in any order)
findByAddress(docs, address) ==
  LET m == matching(docs, address)
      n == IF Cardinality(m) < HistoryLimit THEN Cardinality(m) ELSE HistoryLimit
  IN {h \in [1..n -> m] :
        /\ \A i, j \in 1..n : i < j => h[i] # h[j] /\ h[i].createdAt >= h[j].createdAt
        /\ \A d \in m : (\A i \in 1..n : h[i] # d) =>
                          \A i \in 1..n : h[i].createdAt >= d.createdAt}

\* emails.map(email => email.toClientFormat())
formatAll(h) == [i \in 1..Len(h) |-> toClientFormat(h[i])]

\* the await of Email.findByAddress in 'join-room' resolves or rejects
JoinFind(j) ==
  /\ j \in 1..Len(joinTasks)
  /\ joinTasks[j].pc = "reading"
  /\ \/ \E h \in findByAddress(store, joinTasks[j].addr) :
          joinTasks' = [joinTasks EXCEPT ![j].pc = "found", ![j].emails = formatAll(h),
                                         ![j].readAt = now]
     \/ joinTasks' = [joinTasks EXCEPT ![j].pc = "failed"]
  /\ UNCHANGED <<server, sockets, adapterRooms, ownRooms, activeRooms, joinCount, store, commitLog, reqs,
                 outbox, restResponse, deleteResponse, now>>

\* socket.emit('email-history', formattedEmails), or the catch block's
\* socket.emit('error', ...)
JoinEmit(j) ==
  /\ j \in 1..Len(joinTasks)
  /\ joinTasks[j].pc \in {"found", "failed"}
  /\ LET t == joinTasks[j]
         ev == IF t.pc = "found"
               THEN [type |-> "email-history", emails |-> t.emails]
               ELSE [type |-> "error", emails |-> <<>>]
     IN /\ outbox' = emitToSocket(outbox, sockets, t.conn, ev)
        /\ adapterRooms' = IF t.pc = "failed"
                           THEN catchJoin(adapterRooms, t.addr, t.conn)
                           ELSE adapterRooms
  /\ joinTasks' = SubSeq(joinTasks, 1, j - 1) \o SubSeq(joinTasks, j + 1, Len(joinTasks))
  /\ UNCHANGED <<server, sockets, ownRooms, activeRooms, joinCount, store, commitLog, reqs,
                 restResponse, deleteResponse, now>>

\* GET /api/emails/:emailAddress
RestHistory(raw) ==
  /\ accepting
  /\ \/ \E h \in findByAddress(store, raw) :
          restResponse' = [status |-> 200, address |-> raw, emails |-> formatAll(h), at |-> now]
     \/ restResponse' = [status |-> 500, address |-> raw, emails |-> <<>>, at |-> now]
  /\ UNCHANGED <<server, sockets, adapterRooms, ownRooms, activeRooms, joinTasks, joinCount, store, commitLog, reqs,
                 outbox, deleteResponse, now>>

\* the characters of a hexadecimal string
HexChars == {"0","1","2","3","4","5","6","7","8","9",
             "a","b","c","d","e","f","A","B","C","D","E","F"}

\* the length of the hexadecimal form of an ObjectId
OidLen == 24

OidDigits == <<"1","2","3","4","5","6","7","8","9">>

\* _id.toString(): the 24-character lower-case hexadecimal form of the
\* ObjectId of document id (distinct documents have distinct forms)
oidString(id) == [i \in 1..OidLen |-> IF i = OidLen THEN OidDigits[id] ELSE "0"]

\* the cast of a string to ObjectId succeeds (24 hexadecimal characters);
\* otherwise the query rejects with a CastError
castsToObjectId(s) == Len(s) = OidLen /\ \A i \in 1..Len(s) : s[i] \in HexChars

\* the documents that { _id: emailId } selects (hexadecimal digits are
\* read in either case)
byId(docs, emailId) == {d \in docs : oidString(d.id) = toLowerCase(emailId)}

\* DELETE /api/emails/:emailId: Email.findByIdAndDelete(emailId) rejects
\* (cast error, or failure of the persistence layer), or atomically removes
\* and returns the document, or returns null
DeleteEmail(emailId) ==
  /\ accepting
  /\ \/ /\ ~castsToObjectId(emailId)
        /\ deleteResponse' = [status |-> 500, emailId |-> emailId, thrown |-> "cast"]
        /\ store' = store
     \/ /\ castsToObjectId(emailId)
        /\ \/ /\ byId(store, emailId) # {}
              /\ store' = store \ byId(store, emailId)
              /\ deleteResponse' = [status |-> 200, emailId |-> emailId, thrown |-> "none"]
           \/ /\ byId(store, emailId) = {}
              /\ store' = store
              /\ deleteResponse' = [status |-> 404, emailId |-> emailId, thrown |-> "none"]
           \/ /\ store' = store
              /\ deleteResponse' = [status |-> 500, emailId |-> emailId, thrown |-> "store"]
  /\ UNCHANGED <<server, sockets, adapterRooms, ownRooms, activeRooms, joinTasks, joinCount, commitLog, reqs,
                 outbox, restResponse, now>>

\* ------------------------------------------------------------------------
\* Webhook routes
\* ------------------------------------------------------------------------

\* no document constructed (yet)
NoDoc == [id |-> 0, to_address |-> <<>>, createdAt |-> 0]

\* a request answered before any document was constructed (to is the
\* recipient / to field the handler read)
answered(route, to, recipient, status) ==
  [route |-> route, body |-> NoBody, to |-> to, pc |-> "done", status |-> status,
   recipient |-> recipient, doc |-> NoDoc, room |-> <<>>, mime |-> "none"]

\* a request waiting for the store to save its document
saving(route, to, recipient, doc, room) ==
  [route |-> route, body |-> NoBody, to |-> to, pc |-> "saving", status |-> 0,
   recipient |-> recipient, doc |-> doc, room |-> room, mime |-> "none"]

\* mutant: the recipient is not validated
missingRecipientNever(body) == FALSE

\* if (!recipient) return res.status(400)
missingRecipient(body) == ~Truthy(body.recipient)

\* POST /webhook-mailgun, up to the await of newEmail.save()
mailgunRequest(id, body, t) ==
  IF missingRecipient(body) THEN answered("mailgun", body.recipient, <<>>, 400)
  ELSE LET normalizedRecipient == normalize(body.recipient.v)
       IN saving("mailgun", body.recipient, body.recipient.v,
                 newEmail(id, normalizedRecipient, t), normalizedRecipient)

\* let recipientEmail = ''; if (to) { const match = to.match(/<(.+?)>/);
\* recipientEmail = match ? match[1] : to.trim() }
parseRecipient(to) ==
  IF Truthy(to)
  THEN (IF bracketMatch(to.v).matched THEN bracketMatch(to.v).group ELSE trim(to.v))
  ELSE <<>>

\* if (!recipientEmail || !recipientEmail.includes(rootDomain)) -> rejected
rejected(recipientEmail) ==
  recipientEmail = <<>> \/ ~includes(recipientEmail, rootDomain)

\* POST /api/sendgrid/webhook from the parsing of the recipient up to the
\* await of Email.create
sendgridRequest(id, to, t) ==
  LET recipientEmail == parseRecipient(to)
  IN IF rejected(recipientEmail) THEN answered("sendgrid", to, recipientEmail, 200)
     ELSE saving("sendgrid", to, recipientEmail, newEmail(id, recipientEmail, t),
                 normalize(recipientEmail))

\* to = parsed.to?.text || req.body.to, or req.body.to when the parser throws
mimeRecipient(body) ==
  IF body.email.ok /\ Truthy(body.email.mimeTo) THEN body.email.mimeTo ELSE body.to

\* mutant: the event carries the format of a document never constructed
newEmailEventBlank(doc) == [type |-> "new-email", emails |-> <<toClientFormat(NoDoc)>>]

\* the 'new-email' event carrying the client format of a document
newEmailEvent(doc) == [type |-> "new-email", emails |-> <<toClientFormat(doc)>>]

MailgunReceive(body) ==
  /\ accepting
  /\ reqs' = Append(reqs, mailgunRequest(Len(reqs) + 1, body, now))
  /\ UNCHANGED <<server, sockets, adapterRooms, ownRooms, activeRooms, joinTasks, joinCount, store, commitLog,
                 outbox, restResponse, deleteResponse, now>>

\* POST /api/sendgrid/webhook, up to its first await
SendgridReceive(body) ==
  /\ accepting
  /\ reqs' = Append(reqs,
       IF body.email.has
       THEN [route |-> "sendgrid", body |-> body, to |-> Absent, pc |-> "parsing", status |-> 0,
             recipient |-> <<>>, doc |-> NoDoc, room |-> <<>>, mime |-> "none"]
       ELSE sendgridRequest(Len(reqs) + 1, body.to, now))
  /\ UNCHANGED <<server, sockets, adapterRooms, ownRooms, activeRooms, joinTasks, joinCount, store, commitLog,
                 outbox, restResponse, deleteResponse, now>>

\* the await of simpleParser(req.body.email) resolves or rejects
SendgridParsed(k) ==
  /\ k \in 1..Len(reqs)
  /\ reqs[k].pc = "parsing"
  /\ reqs' = [reqs EXCEPT ![k] =
       [sendgridRequest(k, mimeRecipient(reqs[k].body), now)
          EXCEPT !.mime = IF reqs[k].body.email.ok THEN "parsed" ELSE "failed"]]
  /\ UNCHANGED <<server, sockets, adapterRooms, ownRooms, activeRooms, joinTasks, joinCount, store, commitLog,
                 outbox, restResponse, deleteResponse, now>>

\* the store handles newEmail.save() / Email.create(): validation error,
\* commit, or failure of the persistence layer
StoreSave(k) ==
  /\ k \in 1..Len(reqs)
  /\ reqs[k].pc = "saving"
  /\ \/ /\ validates(reqs[k].doc)
        /\ store' = store \cup {reqs[k].doc}
        /\ commitLog' = Append(commitLog, k)
        /\ reqs' = [reqs EXCEPT ![k].pc = "saved"]
     \/ /\ reqs' = [reqs EXCEPT ![k].pc = "savefail"]
        /\ UNCHANGED <<server, store, commitLog>>
  /\ UNCHANGED <<server, sockets, adapterRooms, ownRooms, activeRooms, joinTasks, joinCount, outbox, restResponse, deleteResponse, now>>

\* mutant: the handler goes on after a rejected save
saveResolvedAlways(r) == TRUE

\* the await of newEmail.save() / Email.create() resolved (it did not throw)
saveResolved(r) == r.pc = "saved"

\* POST /webhook-mailgun after the await of newEmail.save():
\* io.to(normalizedRecipient).emit('new-email', ...) and 200, or the catch
\* block's 500
MailgunContinue(k) ==
  /\ k \in 1..Len(reqs)
  /\ reqs[k].route = "mailgun"
  /\ reqs[k].pc \in {"saved", "savefail"}
  /\ outbox' = IF saveResolved(reqs[k])
               THEN emitToRoom(outbox, transportRooms(adapterRooms, ownRooms), reqs[k].room, newEmailEvent(reqs[k].doc))
               ELSE outbox
  /\ reqs' = [reqs EXCEPT ![k].pc = "done",
                          ![k].status = IF saveResolved(reqs[k]) THEN 200 ELSE 500]
  /\ UNCHANGED <<server, sockets, adapterRooms, ownRooms, activeRooms, joinTasks, joinCount, store, commitLog,
                 restResponse, deleteResponse, now>>

\* POST /api/sendgrid/webhook after the await of Email.create():
\* io.to(normalizedRecipient).emit('new-email', ...) and 200 'OK', or the
\* catch block's 200 'OK'
SendgridContinue(k) ==
  /\ k \in 1..Len(reqs)
  /\ reqs[k].route = "sendgrid"
  /\ reqs[k].pc \in {"saved", "savefail"}
  /\ outbox' = IF saveResolved(reqs[k])
               THEN emitToRoom(outbox, transportRooms(adapterRooms, ownRooms), reqs[k].room, newEmailEvent(reqs[k].doc))
               ELSE outbox
  /\ reqs' = [reqs EXCEPT ![k].pc = "done", ![k].status = 200]
  /\ UNCHANGED <<server, sockets, adapterRooms, ownRooms, activeRooms, joinTasks, joinCount, store, commitLog,
                 restResponse, deleteResponse, now>>

\* ------------------------------------------------------------------------
\* Clock and expiry
\* ------------------------------------------------------------------------

\* time passes
Tick ==
  /\ now < MaxTicks * TickSeconds
  /\ now' = now + TickSeconds
  /\ UNCHANGED <<server, sockets, adapterRooms, ownRooms, activeRooms, joinTasks, joinCount, store, commitLog, reqs,
                 outbox, restResponse, deleteResponse>>

\* the documents the TTL index on createdAt lets the store delete at time t
expired(docs, t) == {d \in docs : t - d.createdAt >= ExpireSeconds}

\* the store's background task deletes the expired documents, at times of
\* its own choosing
TtlSweep ==
  /\ expired(store, now) # {}
  /\ store' = store \ expired(store, now)
  /\ UNCHANGED <<server, sockets, adapterRooms, ownRooms, activeRooms, joinTasks, joinCount, commitLog, reqs, outbox,
                 restResponse, deleteResponse, now>>

\* ------------------------------------------------------------------------
\* Specifications
\* ------------------------------------------------------------------------

\* the Socket.IO side: connections, rooms and history replay
Sockets(conns, joins, maxJoins) ==
  \/ \E c \in conns : Connect(c)
  \/ \E c \in conns, raw \in joins : joinCount < maxJoins /\ JoinRoom(c, raw)
  \/ \E c \in conns, raw \in joins : LeaveRoom(c, raw)
  \/ \E c \in conns : Disconnect(c)
  \/ \E j \in 1..Len(joinTasks) : JoinFind(j)
  \/ \E j \in 1..Len(joinTasks) : JoinEmit(j)

\* the HTTP side: the two webhook routes and the store's saves
Webhooks(mailgun, sendgrid, maxReqs) ==
  \/ \E body \in mailgun : Len(reqs) < maxReqs /\ MailgunReceive(body)
  \/ \E body \in sendgrid : Len(reqs) < maxReqs /\ SendgridReceive(body)
  \/ \E k \in 1..Len(reqs) : SendgridParsed(k)
  \/ \E k \in 1..Len(reqs) : StoreSave(k)
  \/ \E k \in 1..Len(reqs) : MailgunContinue(k)
  \/ \E k \in 1..Len(reqs) : SendgridContinue(k)

\* one mailgun body and one raw-MIME sendgrid body for the address addrLocal
OneMailgun == [recipient : {Field(addrUpperLocal)}]

OneSendgrid == {[to |-> Absent, email |-> Mime(Field(addrDisplay))]}

\* connections, rooms and webhooks over all inputs, at a fixed clock
Next ==
  \/ Startup
  \/ Sockets(Conns, JoinInputs, MaxJoins)
  \/ Webhooks(MailgunBodies, SendgridBodies, MaxReqs)

Spec == Init /\ [][Next]_vars

\* two spellings of one address, and a blank argument
RoomInputs == {addrLocal, addrUpperLocal, addrBlank}

\* connections and rooms alone
NextRooms ==
  \/ Startup
  \/ Sockets(Conns, RoomInputs, MaxRoomJoins)

SpecRooms == Init /\ [][NextRooms]_vars

\* concurrent joins and webhook requests for one address
NextRace ==
  \/ Startup
  \/ Sockets(OneConn, {addrLocal}, MaxRaceJoins)
  \/ Webhooks(OneMailgun, OneSendgrid, MaxRaceReqs)

SpecRace == Init /\ [][NextRace]_vars

\* spellings of one address as the :emailAddress parameter
HistoryInputs == {addrLocal, addrUpperDomain, addrUpperLocal}

\* the store under a running clock: webhooks, history reads and expiry
NextTTL ==
  \/ Startup
  \/ Sockets(OneConn, {addrLocal}, MaxTTLJoins)
  \/ Webhooks(OneMailgun, OneSendgrid, MaxTTLReqs)
  \/ \E raw \in HistoryInputs : RestHistory(raw)
  \/ Tick
  \/ TtlSweep

SpecTTL == Init /\ [][NextTTL]_vars

\* :emailId parameters: the ids of the first two documents, an id that no
\* document has, and a malformed id
DeleteInputs ==
  {oidString(1), oidString(2), oidString(9), <<"a","b","c">>}

\* deletions by id of a store that webhooks fill, and REST history reads
NextDelete ==
  \/ Startup
  \/ Webhooks(OneMailgun, OneSendgrid, MaxDelReqs)
  \/ \E emailId \in DeleteInputs : DeleteEmail(emailId)
  \/ \E raw \in {addrLocal} : RestHistory(raw)

SpecDelete == Init /\ [][NextDelete]_vars

\* every webhook body, with one listener on the address addrLocal
NextIngest ==
  \/ Startup
  \/ Sockets(OneConn, {addrUpperLocal}, MaxIngestJoins)
  \/ Webhooks(MailgunBodies, SendgridBodies, MaxIngestReqs)

SpecIngest == Init /\ [][NextIngest]_vars

\* the ids the transport may generate for connection c: with and without
\* an upper-case character
SocketIds(c) == {socketId(c), toLowerCase(socketId(c))}

\* an address, and a string that can be the id of the first socket
OwnRoomInputs == {addrLocal, toLowerCase(socketId(1))}

OwnRoomBodies == [recipient : {Field(s) : s \in OwnRoomInputs}]

\* sockets of either kind of id, joins and leaves of an address or of a
\* socket id, and mailgun webhooks for them
NextOwnRoom ==
  \/ Startup
  \/ \E c \in OneConn : \E id \in SocketIds(c) : ConnectAs(c, id)
  \/ \E c \in OneConn, raw \in OwnRoomInputs : joinCount < MaxOwnJoins /\ JoinRoom(c, raw)
  \/ \E c \in OneConn, raw \in OwnRoomInputs : LeaveRoom(c, raw)
  \/ \E c \in OneConn : Disconnect(c)
  \/ \E j \in 1..Len(joinTasks) : JoinFind(j)
  \/ \E j \in 1..Len(joinTasks) : JoinEmit(j)
  \/ \E body \in OwnRoomBodies : Len(reqs) < MaxOwnReqs /\ MailgunReceive(body)
  \/ \E k \in 1..Len(reqs) : StoreSave(k)
  \/ \E k \in 1..Len(reqs) : MailgunContinue(k)

SpecOwnRoom == Init /\ [][NextOwnRoom]_vars

\* startup followed by the first connection and the first webhook request
NextStartup ==
  \/ Startup
  \/ Sockets(OneConn, {addrLocal}, MaxStartJoins)
  \/ Webhooks(OneMailgun, OneSendgrid, MaxStartReqs)

SpecStartup == Init /\ [][NextStartup]_vars

\* ------------------------------------------------------------------------
\* Vocabulary of the properties
\* ------------------------------------------------------------------------

\* the positions of the 'new-email' events in an outbox
LiveAt(ob, c) == {i \in 1..Len(ob[c]) : ob[c][i].type = "new-email"}

\* the connections that were pushed the message of request k
PushedTo(k) == {c \in Conns : \E i \in LiveAt(outbox, c) : outbox[c][i].emails[1].id = k}

\* request k was committed by the store
Persisted(k) == \E i \in 1..Len(commitLog) : commitLog[i] = k

\* the canonical (lowercased, trimmed) form of the recipient of request k
Canonical(k) == trim(toLowerCase(reqs[k].recipient))

\* the handler of request k read a non-empty recipient
HasRecipient(k) == reqs[k].pc # "parsing" /\ reqs[k].to.has /\ reqs[k].recipient # <<>>

\* the part of an address after its last "@" (empty when it has none)
DomainOf(addr) ==
  LET ats == {i \in 1..Len(addr) : addr[i] = "@"}
  IN IF ats = {} THEN <<>>
     ELSE SubSeq(addr, (CHOOSE i \in ats : \A j \in ats : j <= i) + 1, Len(addr))

\* the domain policy: the accepted root domain or a subdomain of it
DomainAccepted(addr) ==
  LET d == DomainOf(addr)
      n == Len(rootDomain)
  IN \/ d = rootDomain
     \/ /\ Len(d) > n + 1
        /\ SubSeq(d, Len(d) - n, Len(d)) = <<".">> \o rootDomain

\* this step answers request k (k may arrive and be answered in one step)
Answers(k) ==
  /\ k \in 1..Len(reqs')
  /\ reqs'[k].pc = "done"
  /\ k \in 1..Len(reqs) => reqs[k].pc # "done"

\* this step answers request k after the store committed its message
Dispatches(k) == k \in 1..Len(reqs) /\ reqs[k].pc = "saved" /\ reqs'[k].pc = "done"

\* this step pushes exactly event ev to connection c
Pushes(c, ev) == outbox'[c] = Append(outbox[c], ev)

\* C1: every 'new-email' push is the dispatch of one committed message, it
\* goes to exactly the members, at that moment, of the room of the
\* message's canonical recipient, and the request is answered 200 (also
\* when the room is empty and nothing is pushed).
C1_DispatchToRoomOnly ==
  [][/\ \A k \in 1..Len(reqs) :
          Dispatches(k) =>
            /\ reqs'[k].status = 200
            /\ \A c \in Conns :
                 IF <<Canonical(k), c>> \in adapterRooms
                 THEN Pushes(c, newEmailEvent(reqs[k].doc))
                 ELSE outbox'[c] = outbox[c]
     /\ \A c \in Conns :
          LiveAt(outbox', c) # LiveAt(outbox, c) => \E k \in 1..Len(reqs) : Dispatches(k)
    ]_vars

\* C1 witness: a message was pushed to one connection while another
\* connection, joined to a different room, received nothing.
C1_Witness ==
  \E k \in 1..Len(reqs), c, d \in Conns :
    /\ reqs[k].pc = "done" /\ PushedTo(k) = {c}
    /\ d # c /\ sockets[d] = "connected" /\ outbox[d] = <<>>
    /\ \E r \in DOMAIN activeRooms : d \in activeRooms[r]

\* C2 (as claimed): when a request with a recipient in the accepted domain
\* is answered, and its save did not fail, every connection joined to the
\* room of the recipient's canonical form is pushed the message, whatever
\* the letter case and surrounding whitespace of the recipient.
C2_AnyCaseReceives ==
  [][\A k \in 1..Len(reqs') :
       (/\ Answers(k)
        /\ reqs'[k].to.has /\ reqs'[k].recipient # <<>>
        /\ DomainAccepted(trim(toLowerCase(reqs'[k].recipient)))
        /\ k \in 1..Len(reqs) => reqs[k].pc # "savefail")
       => \A c \in Conns :
            <<trim(toLowerCase(reqs'[k].recipient)), c>> \in adapterRooms
              => /\ Len(outbox'[c]) = Len(outbox[c]) + 1
                 /\ outbox'[c][Len(outbox'[c])].type = "new-email"
                 /\ outbox'[c][Len(outbox'[c])].emails[1].id = k
    ]_vars

\* C3 (as claimed): a message whose recipient's domain is neither the root
\* domain nor a subdomain of it is never persisted and never pushed, and
\* its request is answered 200.
C3_ForeignDomainDiscarded ==
  \A k \in 1..Len(reqs) :
    (HasRecipient(k) /\ ~DomainAccepted(Canonical(k)))
      => /\ ~Persisted(k)
         /\ PushedTo(k) = {}
         /\ reqs[k].pc = "done" => reqs[k].status = 200

\* the positions of the 'email-history' events in c's outbox
HistoryAt(c) == {i \in 1..Len(outbox[c]) : outbox[c][i].type = "email-history"}

\* C4 (as claimed): after the only join so far, every 'new-email' push to
\* a connection comes after its 'email-history' push, and no message is
\* both in the history and pushed live.
C4_HistoryBeforeLive ==
  joinCount <= 1 =>
    \A c \in Conns : \A i \in LiveAt(outbox, c) :
      /\ \E h \in HistoryAt(c) : h < i
      /\ \A h \in HistoryAt(c) :
           \A n \in 1..Len(outbox[c][h].emails) :
             outbox[c][h].emails[n].id # outbox[c][i].emails[1].id

\* C5: a disconnect removes the connection from every room, a disconnected
\* connection is in no room and is pushed no further message, while every
\* dispatch still reaches all members of the message's room.
C5_DisconnectedGetsNothing ==
  [][\A c \in Conns :
       /\ sockets'[c] = "disconnected" =>
            /\ \A r \in DOMAIN activeRooms' : c \notin activeRooms'[r]
            /\ \A p \in adapterRooms' : p[2] # c
       /\ sockets[c] = "disconnected" => LiveAt(outbox', c) = LiveAt(outbox, c)
       /\ \A k \in 1..Len(reqs) :
            (Dispatches(k) /\ hasRoom(activeRooms, Canonical(k))
               /\ c \in activeRooms[Canonical(k)])
              => Pushes(c, newEmailEvent(reqs[k].doc))
    ]_vars

\* C5 witness: a connection joined a room and disconnected (its history
\* read still pending), and a message dispatched to that room afterwards
\* reached the remaining member only.
C5_Witness ==
  \E c, d \in Conns, k \in 1..Len(reqs) :
    /\ sockets[c] = "disconnected" /\ sockets[d] = "connected"
    /\ \E j \in 1..Len(joinTasks) : joinTasks[j].conn = c /\ joinTasks[j].addr = Canonical(k)
    /\ reqs[k].pc = "done" /\ PushedTo(k) = {d}
    /\ LiveAt(outbox, c) = {}

\* C6: every room of the registry has a member, and the registry's size is
\* the number of addresses with a joined connection.
C6_NoEmptyRoom ==
  /\ \A r \in DOMAIN activeRooms : activeRooms[r] # {}
  /\ Cardinality(DOMAIN activeRooms) = Cardinality({p[1] : p \in adapterRooms})

\* C6 witness: a connection joined a room that has since been pruned (its
\* history read still pending) while another room is active.
C6_Witness ==
  /\ Cardinality(DOMAIN activeRooms) = 1
  /\ \E j \in 1..Len(joinTasks) :
       /\ ~hasRoom(activeRooms, joinTasks[j].addr)
       /\ sockets[joinTasks[j].conn] = "connected"

\* the lowercased, trimmed form of each join argument
CanonicalRoom == [raw \in RoomInputs |-> trim(toLowerCase(raw))]

\* C7: a join by a connection that is already a member, and a leave by a
\* connection that is not a member (or of an absent address), leave the
\* registry and the transport's rooms as they were; after any join the
\* connection is in the room once.
C7_JoinLeaveIdempotent ==
  [][\A c \in Conns, raw \in RoomInputs :
       LET n == CanonicalRoom[raw]
           member == hasRoom(activeRooms, n) /\ c \in activeRooms[n]
           before == IF hasRoom(activeRooms, n) THEN activeRooms[n] ELSE {}
       IN /\ (joinCount' = joinCount + 1 /\ JoinRoom(c, raw))
               => /\ hasRoom(activeRooms', n) /\ c \in activeRooms'[n]
                  /\ Cardinality(activeRooms'[n]) = Cardinality(before \cup {c})
                  /\ member => activeRooms' = activeRooms /\ adapterRooms' = adapterRooms
          /\ (activeRooms' # activeRooms \/ adapterRooms' # adapterRooms)
               => ~(joinCount' = joinCount /\ ~member /\ LeaveRoom(c, raw))
    ]_vars

\* C7 witness: one connection joined the same address twice (both history
\* reads pending) and the room holds exactly that connection.
C7_Witness ==
  \E i, j \in 1..Len(joinTasks) :
    /\ i # j
    /\ joinTasks[i].conn = joinTasks[j].conn /\ joinTasks[i].addr = joinTasks[j].addr
    /\ hasRoom(activeRooms, joinTasks[i].addr)
    /\ activeRooms[joinTasks[i].addr] = {joinTasks[i].conn}

\* the request carried no recipient field the handler recognized
NoRecipientField(k) == reqs[k].pc = "done" /\ ~reqs[k].to.has

\* request k stored nothing and pushed nothing
NoTrace(k) == ~Persisted(k) /\ PushedTo(k) = {} /\ \A d \in store : d.id # k

C9_NoExpiredInHistory ==
  /\ \A j \in 1..Len(joinTasks) :
       joinTasks[j].pc = "found"
         => \A n \in 1..Len(joinTasks[j].emails) :
              joinTasks[j].readAt < joinTasks[j].emails[n].expiresAt
  /\ \A n \in 1..Len(restResponse.emails) :
       restResponse.at < restResponse.emails[n].expiresAt

\* the position of request k in the store's commit order
CommitPos(k) == CHOOSE i \in 1..Len(commitLog) : commitLog[i] = k

\* C10 (as claimed): two messages for one address pushed live to the same
\* connection are pushed in the order in which the store committed them.
C10_LiveInCommitOrder ==
  \A c \in Conns : \A i, j \in LiveAt(outbox, c) :
    (i < j /\ outbox[c][i].emails[1].to = outbox[c][j].emails[1].to)
      => CommitPos(outbox[c][i].emails[1].id) < CommitPos(outbox[c][j].emails[1].id)

\* the save of request k's document failed
SaveFailed(k) ==
  \/ reqs[k].pc = "savefail"
  \/ reqs[k].pc = "done" /\ reqs[k].doc # NoDoc /\ ~Persisted(k)

\* request k was answered before any document was constructed
AnsweredUnsaved(k) == reqs[k].pc = "done" /\ reqs[k].doc = NoDoc

errorEvent == [type |-> "error", emails |-> <<>>]

\* the positions of the events of one type in c's outbox
EventsAt(ob, c, type) == {i \in 1..Len(ob[c]) : ob[c][i].type = type}

\* this step ends the join task at position j
EndsJoin(j) ==
  /\ j \in 1..Len(joinTasks)
  /\ joinTasks' = SubSeq(joinTasks, 1, j - 1) \o SubSeq(joinTasks, j + 1, Len(joinTasks))

\* C12: the step that ends a join whose history read failed pushes exactly
\* one 'error' event to the joining connection (nothing when that
\* connection is gone by then) and nothing to any other connection; a failed
\* read never turns into a history, and no other step pushes an 'error'.
C12_FailedJoinErrorOnly ==
  [][/\ \A j \in 1..Len(joinTasks) :
          (joinTasks[j].pc = "failed" /\ EndsJoin(j))
            => /\ IF sockets[joinTasks[j].conn] = "connected"
                  THEN Pushes(joinTasks[j].conn, errorEvent)
                  ELSE outbox'[joinTasks[j].conn] = outbox[joinTasks[j].conn]
               /\ \A d \in Conns \ {joinTasks[j].conn} : outbox'[d] = outbox[d]
     /\ \A j \in 1..Len(joinTasks) :
          (joinTasks[j].pc = "failed" /\ Len(joinTasks') >= Len(joinTasks))
            => joinTasks'[j] = joinTasks[j]
     /\ \A c \in Conns :
          EventsAt(outbox', c, "error") # EventsAt(outbox, c, "error")
            => \E j \in 1..Len(joinTasks) :
                 joinTasks[j].pc = "failed" /\ joinTasks[j].conn = c /\ EndsJoin(j)
    ]_vars

\* C12 witness: a connection whose only join failed holds exactly one
\* 'error' event, while another connection joined to the same room holds
\* nothing.
C12_Witness ==
  \E c, d \in Conns, r \in DOMAIN activeRooms :
    /\ c # d /\ {c, d} \subseteq activeRooms[r]
    /\ outbox[c] = <<errorEvent>>
    /\ outbox[d] = <<>>

\* C13 (as claimed): a join or leave whose address is empty after
\* lowercasing and trimming changes nothing, so neither the registry nor
\* the transport ever holds a room for the empty address.
C13_BlankAddressRejected ==
  /\ ~hasRoom(activeRooms, <<>>)
  /\ \A p \in adapterRooms : p[1] # <<>>

\* the client records of the documents of docs stored for address canon
RecordsFor(docs, canon) == {toClientFormat(d) : d \in {x \in docs : x.to_address = canon}}

\* h lists, most recent first and without repetition, the newest
\* min(HistoryLimit, all) records stored for address canon
IsNewestOf(h, docs, canon) ==
  LET m == RecordsFor(docs, canon)
  IN /\ \A i \in 1..Len(h) : h[i] \in m
     /\ \A i, j \in 1..Len(h) : i < j => h[i] # h[j] /\ h[i].expiresAt >= h[j].expiresAt
     /\ Len(h) = (IF Cardinality(m) < HistoryLimit THEN Cardinality(m) ELSE HistoryLimit)
     /\ \A e \in m : (\A i \in 1..Len(h) : h[i] # e)
                       => \A i \in 1..Len(h) : h[i].expiresAt >= e.expiresAt

\* this step is a successful GET /api/emails/:emailAddress
RestAnswers == restResponse' # restResponse /\ restResponse'.status = 200

\* this step resolves the history read of join task j
JoinReads(j) ==
  /\ j \in 1..Len(joinTasks) /\ Len(joinTasks') = Len(joinTasks)
  /\ joinTasks[j].pc = "reading" /\ joinTasks'[j].pc = "found"

IsCanonical(s) == toLowerCase(s) = s /\ trim(s) = s

\* C16: the recipient of every stored message and every key of the room
\* registry (and of the transport's rooms) is in canonical form.
C16_StoredAndRoomsCanonical ==
  /\ \A d \in store : IsCanonical(d.to_address)
  /\ \A r \in DOMAIN activeRooms : IsCanonical(r)
  /\ \A p \in adapterRooms : IsCanonical(p[1])

\* C16 witness: the sendgrid route stored a message whose raw recipient was
\* neither lowercase nor trimmed, while a room is registered.
C16_Witness ==
  /\ activeRooms # <<>>
  /\ \E k \in 1..Len(reqs) :
       /\ reqs[k].route = "sendgrid" /\ Persisted(k)
       /\ toLowerCase(reqs[k].recipient) # reqs[k].recipient
       /\ trim(reqs[k].recipient) # reqs[k].recipient
       /\ reqs[k].doc \in store

\* this step answers a DELETE /api/emails/:emailId whose store was reachable
DeleteAnswers == deleteResponse' # deleteResponse /\ deleteResponse'.thrown # "store"

\* C17 (as claimed): a delete by id answers 200 and removes exactly the
\* message with that id when the store holds it, and answers 404 and leaves
\* the store unchanged when no stored message has that id; a history read
\* lists stored messages only.
C17_DeleteByIdDistinct ==
  [][/\ DeleteAnswers
          => LET target == byId(store, deleteResponse'.emailId)
             IN IF target # {}
                THEN /\ deleteResponse'.status = 200
                     /\ Cardinality(target) = 1
                     /\ store' = store \ target
                ELSE /\ deleteResponse'.status = 404
                     /\ store' = store
     /\ RestAnswers
          => \A n \in 1..Len(restResponse'.emails) :
               \E d \in store : toClientFormat(d) = restResponse'.emails[n]
    ]_vars

\* this step takes in HTTP or subscription traffic: a connection or a
\* socket event is handled, or a request arrives or is answered
TakesTraffic ==
  \/ sockets' # sockets
  \/ adapterRooms' # adapterRooms
  \/ joinCount' # joinCount
  \/ reqs' # reqs
  \/ restResponse' # restResponse
  \/ deleteResponse' # deleteResponse

\* C18: the server starts to listen only from the state in which the
\* database connection has succeeded, traffic is taken in only while it
\* listens, and a process that exited on a failed connection stays exited.
C18_ListenAfterDatabase ==
  [][/\ (server' = "listening" /\ server # "listening") => server = "connected"
     /\ server' = "connected" => server \in {"connecting", "connected"}
     /\ server = "exited" => server' = "exited"
     /\ TakesTraffic => server = "listening" /\ server' = "listening"
    ]_vars

\* C18 witness: the server listens and has taken a webhook request and a
\* connection.
C18_Witness ==
  /\ server = "listening"
  /\ reqs # <<>>
  /\ \E c \in Conns : sockets[c] = "connected"

\* connection d is tracked as a member of room r in registry ar
Tracked(ar, r, d) == hasRoom(ar, r) /\ d \in ar[r]

\* this step is a 'leave-room' that changes the registry or the rooms
\* (joins count up, a disconnect changes the socket)
LeaveChanges ==
  /\ joinCount' = joinCount /\ sockets' = sockets
  /\ activeRooms' # activeRooms \/ adapterRooms' # adapterRooms

\* C19: a leave changes the membership of at most one connection in one
\* canonical address: some pair (c, address) exists such that every other
\* address, and every other connection in that address, is a member after
\* the leave exactly when it was before, and the pair is one the leave
\* names.
C19_LeaveFrame ==
  [][LeaveChanges
       => \E c \in Conns, raw \in RoomInputs :
            /\ LeaveRoom(c, raw)
            /\ \A r \in (DOMAIN activeRooms) \cup (DOMAIN activeRooms'), d \in Conns :
                 (r # CanonicalRoom[raw] \/ d # c)
                   => /\ Tracked(activeRooms', r, d) <=> Tracked(activeRooms, r, d)
                      /\ <<r, d>> \in adapterRooms' <=> <<r, d>> \in adapterRooms
    ]_vars

\* C19 witness: a connection joined a room (its history read still
\* pending) and left it, and another connection is still a member of that
\* room.
C19_Witness ==
  \E j \in 1..Len(joinTasks), d \in Conns :
    /\ sockets[joinTasks[j].conn] = "connected"
    /\ d # joinTasks[j].conn
    /\ hasRoom(activeRooms, joinTasks[j].addr)
    /\ activeRooms[joinTasks[j].addr] = {d}
    /\ adapterRooms = {<<joinTasks[j].addr, d>>}

\* C20: every 'new-email' event in an outbox is the client record of the
\* document of a request whose save the store committed, with that
\* document's id; a request whose save failed or is still pending was
\* pushed to nobody.
C20_DispatchAfterPersist ==
  /\ \A c \in Conns : \A i \in LiveAt(outbox, c) :
       \E k \in 1..Len(reqs) :
         /\ Persisted(k)
         /\ reqs[k].doc.id = k
         /\ outbox[c][i].emails = <<toClientFormat(reqs[k].doc)>>
  /\ \A k \in 1..Len(reqs) :
       (SaveFailed(k) \/ reqs[k].pc \in {"parsing", "saving", "saved"}) => PushedTo(k) = {}

\* C20 witness: a message that the sendgrid route saved was pushed to the
\* connection joined to its room.
C20_Witness ==
  \E k \in 1..Len(reqs), c \in Conns :
    /\ reqs[k].route = "sendgrid" /\ Persisted(k) /\ reqs[k].pc = "done"
    /\ <<reqs[k].room, c>> \in adapterRooms
    /\ outbox[c] # <<>>
    /\ outbox[c][Len(outbox[c])] = newEmailEvent(reqs[k].doc)

\* the connection ids the registry tracks for room r
TrackedSet(r) == IF hasRoom(activeRooms, r) THEN activeRooms[r] ELSE {}

\* the connections io.to(r).emit would deliver to
Delivers(r) == roomMembers(transportRooms(adapterRooms, ownRooms), r)

\* the connections that are in room r because r is their own socket id
OwnMembers(r) == {c \in Conns : ownRooms[c].member /\ ownRooms[c].id = r}

\* every room name the registry or the transport knows
RoomKeys ==
  (DOMAIN activeRooms) \cup {p[1] : p \in transportRooms(adapterRooms, ownRooms)}

\* C21 as stated: for every room name a dispatch can use (a canonical
\* string), the connection ids tracked in activeRooms are exactly the
\* connections the transport's room of that name delivers to.
C21_RegistryMatchesTransport ==
  \A r \in RoomKeys : IsCanonical(r) => TrackedSet(r) = Delivers(r)

\* C21 amended: for every room name, the transport's room delivers to
\* exactly the connection ids tracked in activeRooms together with the
\* connection whose own socket id is that name; so the two agree for
\* every name that is not the id of a connected socket.
C21_RegistryMatchesJoinedRooms ==
  \A r \in RoomKeys : Delivers(r) = TrackedSet(r) \cup OwnMembers(r)

\* C21 witness: a connected socket whose id is a canonical string has
\* joined an address; registry and transport agree on the address, and
\* the transport alone has the socket in the room named by its id.
C21_Witness ==
  \E c \in Conns :
    /\ sockets[c] = "connected"
    /\ IsCanonical(ownRooms[c].id)
    /\ TrackedSet(addrLocal) = {c} /\ Delivers(addrLocal) = {c}
    /\ TrackedSet(ownRooms[c].id) = {} /\ Delivers(ownRooms[c].id) = {c}

\* the history read of a join of connection c failed: the rejected read is
\* waiting for the catch block, or the 'error' event was pushed
FailedJoiner(c) ==
  \/ \E j \in 1..Len(joinTasks) : joinTasks[j].conn = c /\ joinTasks[j].pc = "failed"
  \/ EventsAt(outbox, c, "error") # {}

\* this step is a leave or the disconnect of connection c: it touches no
\* join task, no request and no outbox
LeavesOrCloses(c) ==
  /\ joinTasks' = joinTasks /\ reqs' = reqs /\ outbox' = outbox
  /\ sockets'[c] = "disconnected" \/ sockets' = sockets

\* C22: the step in which a history read fails, and the step that reports
\* the failure, leave the registry and the transport's rooms as they were,
\* so a connection that is in the room stays in it and stays tracked; a
\* membership ends only by a leave or the disconnect of its
\* connection; and the dispatch of a stored message pushes it to every
\* connection with a failed join that is tracked in the room of the
\* message's address.
C22_FailedJoinStaysMember ==
  [][/\ \A j \in 1..Len(joinTasks) :
          \/ joinTasks[j].pc = "reading" /\ Len(joinTasks') = Len(joinTasks)
               /\ joinTasks'[j].pc = "failed"
          \/ joinTasks[j].pc = "failed" /\ EndsJoin(j)
          => /\ activeRooms' = activeRooms /\ adapterRooms' = adapterRooms
             /\ <<joinTasks[j].addr, joinTasks[j].conn>> \in adapterRooms
                  => /\ <<joinTasks[j].addr, joinTasks[j].conn>> \in adapterRooms'
                     /\ Tracked(activeRooms', joinTasks[j].addr, joinTasks[j].conn)
     /\ \A c \in Conns, r \in DOMAIN activeRooms :
          \/ Tracked(activeRooms, r, c) /\ ~Tracked(activeRooms', r, c)
          \/ <<r, c>> \in adapterRooms /\ <<r, c>> \notin adapterRooms'
          => LeavesOrCloses(c)
     /\ \A k \in 1..Len(reqs), c \in Conns :
          /\ Dispatches(k) /\ FailedJoiner(c)
          /\ Tracked(activeRooms, reqs[k].doc.to_address, c)
          => Pushes(c, newEmailEvent(reqs[k].doc))
    ]_vars

\* C22 witness: a connection whose join failed holds the 'error' event
\* followed by a message that was dispatched afterwards, and is still a
\* member of the room.
C22_Witness ==
  \E c \in Conns, k \in 1..Len(reqs) :
    /\ reqs[k].pc = "done" /\ Persisted(k)
    /\ outbox[c] = <<errorEvent, newEmailEvent(reqs[k].doc)>>
    /\ Tracked(activeRooms, reqs[k].doc.to_address, c)
    /\ <<reqs[k].doc.to_address, c>> \in adapterRooms

====
